---- MODULE Spec2Model ----
(***************************************************************************)
(* The misconfiguration demo servers of liangwei93/simple-api as a state   *)
(* machine.  There are two programs: the full demo (src/index.js, copied   *)
(* with a differently worded HTML table as lines 1-206 of                  *)
(* src/unnamed/part_000) and the minimal demo (lines 207-227 of            *)
(* src/unnamed/part_000: Swagger UI and GET /hello only, no cors).         *)
(*                                                                         *)
(* A request is dispatched through the Express layer stack in registration *)
(* order.  Every handler is synchronous except the update route, whose     *)
(* express.json() middleware waits for the request body: several update    *)
(* requests can be in flight, and the handler proper runs to completion    *)
(* when a body has arrived (Node runs one callback at a time).             *)
(* Behaviour of the npm packages the code calls (express, cors,            *)
(* serve-static, body-parser, finalhandler) is modelled at the call site.  *)
(***************************************************************************)
EXTENDS Integers, Sequences, FiniteSets, TLC

\* Number of update requests that can be waiting for their body at once.
MaxInFlight == 2
\* new Date() returns one of the instants 0 .. MaxClock (milliseconds).
MaxClock == 1

(***************************************************************************)
(* JavaScript values.  v holds the value in the form String(value) gives,  *)
(* except for objects, where v is the JSON text.                           *)
(***************************************************************************)
Undefined == [t |-> "undefined", v |-> "undefined"]
Null == [t |-> "null", v |-> "null"]
Str(s) == [t |-> "string", v |-> s]
Num(s) == [t |-> "number", v |-> s]
Bool(s) == [t |-> "boolean", v |-> s]
Obj(s) == [t |-> "object", v |-> s]
Arr(s) == [t |-> "array", v |-> s]

\* ToBoolean, as the || of lines 130, 131 and 197 applies it.
Truthy(x) ==
  CASE x.t = "string" -> x.v # ""
    [] x.t = "number" -> x.v \notin {"0", "NaN"}
    [] x.t = "boolean" -> x.v = "true"
    [] x.t \in {"object", "array"} -> TRUE
    [] OTHER -> FALSE

\* a || b
Or(a, b) == IF Truthy(a) THEN a ELSE b

\* String(x), the conversion a template literal ${x} applies.
ToStr(x) == IF x.t = "object" THEN "[object Object]" ELSE x.v

\* new Date().toISOString() at instant now.
toISOString(now) == Str("2026-11-01T07:35:00.00" \o ToString(now) \o "Z")

\* process.env.NODE_ENV: unset, or any string.
EnvUnset == Undefined
EnvValues == {EnvUnset, Str("production"), Str("test")}

\* process.env.NODE_ENV || 'development' (line 54; express's app "env" setting
\* is computed the same way)
node_env(env) == Or(env, Str("development")).v

(***************************************************************************)
(* Requests.  A path is its sequence of segments; a trailing "" segment is *)
(* a trailing slash, so <<"files", "">> is /files/ and <<>> is /.          *)
(***************************************************************************)
Methods == {"GET", "POST", "OPTIONS"}
\* The Origin header: cors({ origin: '*' }) answers the same for any value.
Origins == {"http://evil.example"}
Paths ==
  { <<>>, <<"hello">>, <<"admin">>, <<"crash">>, <<"actuator", "env">>,
    <<"swagger.json">>, <<"api-docs">>, <<"swagger">>, <<"swagger-ui.html">>,
    <<"graphql">>, <<"files">>, <<"files", "">>, <<"files", "secret.txt">>,
    <<"api", "update-config">>, <<"nope">> }

\* Request bodies of POST /api/update-config.
NoBody == [kind |-> "none", user |-> Undefined]
Malformed == [kind |-> "malformed", user |-> Undefined]
JsonObject(u) == [kind |-> "object", user |-> u]
JsonArray == [kind |-> "array", user |-> Undefined]
Users == {Undefined, Str("alice"), Str(""), Obj("{\"role\":\"admin\"}")}
Bodies == {NoBody, Malformed, JsonArray} \cup {JsonObject(u) : u \in Users}

\* The public directory as a request finds it.
FileSystems ==
  { [dir |-> FALSE, files |-> {}],
    [dir |-> TRUE, files |-> {}],
    [dir |-> TRUE, files |-> {"secret.txt"}],
    [dir |-> TRUE, files |-> {"index.html", "secret.txt"}] }
NoFs == [dir |-> FALSE, files |-> {}]

\* body and fs are filled in when the body arrives and when the static layer
\* looks at the directory.
Request(m, p, o) ==
  [method |-> m, path |-> p, origin |-> o, body |-> NoBody, fs |-> NoFs]
Requests == {Request(m, p, o) : m \in Methods, p \in Paths, o \in Origins}

(***************************************************************************)
(* The layer stacks, in registration order.                                *)
(***************************************************************************)
Use(p, h) == [use |-> TRUE, method |-> "ALL", path |-> p, name |-> h]
Route(m, p, h) == [use |-> FALSE, method |-> m, path |-> p, name |-> h]

Variants == {"full", "minimal"}

\* src/index.js (and its copy, lines 1-206 of src/unnamed/part_000)
FullLayers ==
  << Use(<<>>, "cors"),
     Use(<<"api-docs">>, "swaggerUi"),
     Route("GET", <<"swagger.json">>, "swagger_json"),
     Use(<<"graphql">>, "graphqlHTTP"),
     Route("GET", <<"actuator", "env">>, "actuator_env"),
     Route("GET", <<"admin">>, "admin"),
     Route("GET", <<"crash">>, "crash"),
     Use(<<"files">>, "express_static"),
     Route("GET", <<"hello">>, "hello"),
     Route("GET", <<>>, "home"),
     Use(<<"swagger">>, "swaggerUi"),
     Use(<<"swagger-ui.html">>, "swaggerUi"),
     Route("POST", <<"api", "update-config">>, "update_config") >>

\* lines 207-227 of src/unnamed/part_000
MinimalLayers ==
  << Use(<<"api-docs">>, "swaggerUi"),
     Route("GET", <<"hello">>, "hello") >>

Layers(v) == IF v = "full" THEN FullLayers ELSE MinimalLayers

IsPrefix(p, q) == Len(p) <= Len(q) /\ SubSeq(q, 1, Len(p)) = p

\* Non-strict routing: a route path also matches with a trailing slash.
StripSlash(p) ==
  IF Len(p) > 0 /\ p[Len(p)] = "" THEN SubSeq(p, 1, Len(p) - 1) ELSE p

\* Does the layer's path (and, for a route, its method) match the request?
match(layer, req) ==
  IF layer.use
    THEN IsPrefix(layer.path, req.path)
    ELSE layer.method = req.method /\ StripSlash(req.path) = layer.path

NoHeaders == [acao |-> ""]

\* cors({ origin: '*' }): configureOrigin sets Access-Control-Allow-Origin: *
\* whatever the request's Origin header is (it is not read for '*').
cors(req, headers) == [headers EXCEPT !.acao = "*"]

\* The router's next() loop from layer i: the layer that ends the response
\* (cors ends it for OPTIONS, and passes on otherwise), the response headers
\* set on the way, and "finalhandler" when the stack is exhausted.  An OPTIONS
\* request that matched the path of some route is answered by the router.
RECURSIVE walk(_, _, _, _)
walk(layers, i, req, headers) ==
  IF i > Len(layers)
    THEN [ name |-> IF /\ req.method = "OPTIONS"
                       /\ \E k \in 1..Len(layers) :
                            /\ ~layers[k].use
                            /\ StripSlash(req.path) = layers[k].path
                      THEN "options" ELSE "finalhandler",
           idx |-> i, headers |-> headers ]
    ELSE IF ~match(layers[i], req)
      THEN walk(layers, i + 1, req, headers)
      ELSE IF layers[i].name = "cors"
        THEN IF req.method = "OPTIONS"
               THEN [name |-> "cors", idx |-> i, headers |-> cors(req, headers)]
               ELSE walk(layers, i + 1, req, cors(req, headers))
        ELSE [name |-> layers[i].name, idx |-> i, headers |-> headers]

\* app.handle(req): where each request of each program ends up.
Dispatch == [v \in Variants |-> [r \in Requests |-> walk(Layers(v), 1, r, NoHeaders)]]

\* The requests a handler receives.
ReqsTo(v, h) == {r \in Requests : Dispatch[v][r].name = h}

(***************************************************************************)
(* Responses.                                                              *)
(***************************************************************************)
Response(req, status, headers, body) ==
  [req |-> req, status |-> status, headers |-> headers, body |-> body]

\* The response together with the directory the static layer looked at.
Seen(res, fs) == [req |-> [res.req EXCEPT !.fs = fs], status |-> res.status,
                  headers |-> res.headers, body |-> res.body]

NoResponse == Response(Request("NONE", <<>>, ""), 0, NoHeaders, [kind |-> "none"])

\* An Error as next(err) carries it: the status it asks for (0: none) and
\* what its stack shows.
Error(status, stack) == [status |-> status, stack |-> stack]
\* No error: the stack of layers is exhausted.
NoError == Error(0, "")

StatusMessage(status) ==
  CASE status = 400 -> "Bad Request"
    [] status = 404 -> "Not Found"
    [] OTHER -> "Internal Server Error"

\* express's default error handler (finalhandler), which ends every request no
\* layer answered and every request whose handler threw or called next(err).
\* It keeps the headers already set.  The page shows err.stack unless the app's
\* env is "production", where it shows only the status message; with no error it
\* is the 404 page "Cannot GET /path".
finalhandler(req, headers, err, env) ==
  LET status == IF err.status \in 400..599 THEN err.status ELSE 500
  IN IF err = NoError
       THEN Response(req, 404, headers,
              [kind |-> "error-page", stack |-> FALSE, text |-> "Cannot " \o req.method])
       ELSE Response(req, status, headers,
              [kind |-> "error-page",
               stack |-> node_env(env) # "production",
               text |-> IF node_env(env) # "production"
                          THEN err.stack ELSE StatusMessage(status)])

\* The router's automatic answer to OPTIONS on a path that has routes.
options(req, headers) ==
  Response(req, 200, headers, [kind |-> "allow", text |-> "GET,HEAD"])

\* cors answers every OPTIONS request itself (preflight), with status 204.
cors_preflight(req, headers) ==
  Response(req, 204, headers, [kind |-> "empty"])

\* swaggerUi.serve, swaggerUi.setup(swaggerDocument): the viewer's page.
swaggerUi(req, headers) ==
  Response(req, 200, headers, [kind |-> "html", text |-> "swagger-ui"])

\* res.sendFile(swagger.yaml): the file, or the ENOENT error passed to next(err)
\* when it has been removed since startup.
swagger_json(req, headers, exists, env) ==
  IF exists
    THEN Response(req, 200, headers, [kind |-> "file", name |-> "swagger.yaml"])
    ELSE finalhandler(req, headers, Error(404, "Error: ENOENT: no such file or directory"), env)

\* graphqlHTTP: the executor's answer (GraphiQL page or data), or its 400
\* when the request carries no query.
graphqlHTTP(req, headers, hasQuery) ==
  IF hasQuery
    THEN Response(req, 200, headers, [kind |-> "graphql", text |-> "data"])
    ELSE Response(req, 400, headers, [kind |-> "graphql", text |-> "Must provide query string."])

\* Mutant of actuator_env: the runtime-mode field is taken from the record.
actuator_env_fromDB(req, headers, env, db) ==
  Response(req, 200, headers,
    [kind |-> "json", DB_USER |-> "admin", DB_PASSWORD |-> "supersecret",
     NODE_ENV |-> ToStr(Or(db.lastModifiedBy, Str(node_env(env))))])

\* (productionDB is in the handler's scope; it does not read it.)
actuator_env(req, headers, env, db) ==
  Response(req, 200, headers,
    [kind |-> "json", DB_USER |-> "admin", DB_PASSWORD |-> "supersecret",
     NODE_ENV |-> node_env(env)])

admin(req, headers) ==
  Response(req, 200, headers,
    [kind |-> "text", text |-> "Welcome to Admin Panel - No Auth Needed"])

\* The handler throws; the router catches it and passes it to the error handler.
crash(req, headers, env) ==
  finalhandler(req, headers,
    Error(0, "Error: Simulated crash: stack trace leak\n    at index.js:65"), env)

\* express.static(public), mounted at /files: rel is the path below the mount.
\* It serves GET only; a directory without trailing slash is redirected; a
\* directory is answered with its index.html when there is one; anything it
\* cannot serve falls through to the next layer (there is no directory listing).
express_static(req, headers, fs) ==
  LET rel == SubSeq(req.path, 2, Len(req.path))
      file == IF rel = <<"">> THEN "index.html" ELSE rel[1]
  IN IF req.method # "GET" \/ ~fs.dir
       THEN [next |-> TRUE]
       ELSE IF rel = <<>>
         THEN [next |-> FALSE,
               res |-> Response(req, 301, headers, [kind |-> "redirect", text |-> "/files/"])]
         ELSE IF file \in fs.files
           THEN [next |-> FALSE,
                 res |-> Response(req, 200, headers, [kind |-> "file", name |-> file])]
           ELSE [next |-> TRUE]

\* Mutant of hello: another greeting.
hello_other(req, headers) ==
  Response(req, 200, headers, [kind |-> "json", message |-> "Hello, World!"])

hello(req, headers) ==
  Response(req, 200, headers, [kind |-> "json", message |-> "Hello World"])

\* The placeholder of lines 130 and 131 (an em dash, U+2014, in the source).
Placeholder == Str("--")

\* Mutant of home: && where the source has ||.
home_and(req, headers, db) ==
  Response(req, 200, headers,
    [kind |-> "page",
     lastModifiedBy |-> ToStr(IF Truthy(db.lastModifiedBy) THEN Placeholder ELSE db.lastModifiedBy),
     lastModifiedAt |-> ToStr(IF Truthy(db.lastModifiedAt) THEN Placeholder ELSE db.lastModifiedAt)])

\* The report page: its two interpolations (the rest is fixed text).
home(req, headers, db) ==
  Response(req, 200, headers,
    [kind |-> "page",
     lastModifiedBy |-> ToStr(Or(db.lastModifiedBy, Placeholder)),
     lastModifiedAt |-> ToStr(Or(db.lastModifiedAt, Placeholder))])

\* Mutant of home_db: = where the source has ||, so that rendering assigns.
home_db_assign(db) == [db EXCEPT !.lastModifiedBy = Placeholder]

\* productionDB after the GET / handler: it only reads.
home_db(db) == db

\* express.json() on the body that arrived: the outcomes the installed express
\* can give.  Text that does not parse is a 400 error.  A body that is not
\* JSON, or no body at all, is not parsed: req.body is then {} (express 4) or
\* left undefined (express 5).
express_json(body) ==
  CASE body.kind = "malformed" ->
         {[ok |-> FALSE, err |-> Error(400, "SyntaxError: Unexpected token"), body |-> Undefined]}
    [] body.kind = "none" ->
         { [ok |-> TRUE, err |-> NoError, body |-> Obj("{}")],
           [ok |-> TRUE, err |-> NoError, body |-> Undefined] }
    [] OTHER -> {[ok |-> TRUE, err |-> NoError, body |-> Obj("parsed")]}

\* Mutant of update_config: the timestamp is never written.
update_config_noTimestamp(req, headers, db, parsed, now, env) ==
  LET db2 == [db EXCEPT !.lastModifiedBy = Or(req.body.user, Str("anonymous"))]
  IN [db |-> db2, wrote |-> {"lastModifiedBy"},
      res |-> Response(req, 200, headers,
                [kind |-> "json", message |-> "Production config updated!",
                 productionDB |-> db2])]

\* Mutant of update_config: no default for the user.
update_config_noDefault(req, headers, db, parsed, now, env) ==
  LET db2 == [lastModifiedBy |-> req.body.user, lastModifiedAt |-> toISOString(now)]
  IN [db |-> db2, wrote |-> {"lastModifiedBy", "lastModifiedAt"},
      res |-> Response(req, 200, headers,
                [kind |-> "json", message |-> "Production config updated!",
                 productionDB |-> db2])]

\* Mutant of update_config: the answer is built before the two writes.
update_config_answerFirst(req, headers, db, parsed, now, env) ==
  [db |-> [lastModifiedBy |-> Or(req.body.user, Str("anonymous")),
           lastModifiedAt |-> toISOString(now)],
   wrote |-> {"lastModifiedBy", "lastModifiedAt"},
   res |-> Response(req, 200, headers,
             [kind |-> "json", message |-> "Production config updated!",
              productionDB |-> db])]

\* The handler body, lines 197-200: the record after it, the fields it wrote and
\* the JSON it sent.  Reading .user of undefined throws before any write.
update_config(req, headers, db, parsed, now, env) ==
  IF parsed = Undefined
    THEN [db |-> db, wrote |-> {},
          res |-> finalhandler(req, headers,
                    Error(0, "TypeError: Cannot read properties of undefined"), env)]
    ELSE LET user == Or(req.body.user, Str("anonymous"))
             db2 == [lastModifiedBy |-> user, lastModifiedAt |-> toISOString(now)]
         IN [db |-> db2, wrote |-> {"lastModifiedBy", "lastModifiedAt"},
             res |-> Response(req, 200, headers,
                       [kind |-> "json", message |-> "Production config updated!",
                        productionDB |-> db2])]

\* The route's chain: express.json(), then the handler; a parse error skips the
\* handler and goes to the error handler.
post_update_config(req, headers, db, parsed, now, env) ==
  IF parsed.ok
    THEN update_config(req, headers, db, parsed.body, now, env)
    ELSE [db |-> db, wrote |-> {},
          res |-> finalhandler(req, headers, parsed.err, env)]

(***************************************************************************)
(* State.                                                                  *)
(***************************************************************************)
VARIABLES
  variant,       \* which program runs: "full" or "minimal"
  NODE_ENV,      \* process.env.NODE_ENV
  productionDB,  \* the simulated database (lines 15-18)
  pending,       \* update requests whose body express.json() is waiting for,
                 \* in order of arrival
  resp,          \* the response sent last
  writer,        \* history: which request last wrote each field: "none", the
                 \* "latest" request that wrote anything, or an "earlier" one
  lastUser,      \* history: the body of the latest update answered with 200
  firstEnv       \* history: the first answer of GET /actuator/env, and whether
                 \* the record had been updated by then

vars == <<variant, NODE_ENV, productionDB, pending, resp, writer, lastUser, firstEnv>>

Fields == {"lastModifiedBy", "lastModifiedAt"}
NoUpdate == [kind |-> "no-update", user |-> Undefined]
NoEnv == [status |-> 0, body |-> [kind |-> "none"], updated |-> FALSE]

Init ==
  /\ variant \in Variants
  /\ NODE_ENV \in EnvValues
  /\ productionDB = [lastModifiedBy |-> Null, lastModifiedAt |-> Null]
  /\ pending = <<>>
  /\ resp = NoResponse
  /\ writer = [f \in Fields |-> "none"]
  /\ lastUser = NoUpdate
  /\ firstEnv = NoEnv

Headers(req) == Dispatch[variant][req].headers

\* A handler that touches nothing but the response.
Send(r) ==
  /\ resp' = r
  /\ UNCHANGED <<variant, NODE_ENV, productionDB, pending, writer, lastUser, firstEnv>>

Preflight == \E req \in ReqsTo(variant, "cors") : Send(cors_preflight(req, Headers(req)))

Options == \E req \in ReqsTo(variant, "options") : Send(options(req, Headers(req)))

SwaggerUi == \E req \in ReqsTo(variant, "swaggerUi") : Send(swaggerUi(req, Headers(req)))

SwaggerJson ==
  \E req \in ReqsTo(variant, "swagger_json"), exists \in BOOLEAN :
    Send(swagger_json(req, Headers(req), exists, NODE_ENV))

GraphQL ==
  \E req \in ReqsTo(variant, "graphqlHTTP"), hasQuery \in BOOLEAN :
    Send(graphqlHTTP(req, Headers(req), hasQuery))

ActuatorEnv ==
  \E req \in ReqsTo(variant, "actuator_env") :
    /\ resp' = actuator_env(req, Headers(req), NODE_ENV, productionDB)
    /\ firstEnv' = IF firstEnv = NoEnv
                     THEN [status |-> resp'.status, body |-> resp'.body,
                           updated |-> productionDB.lastModifiedBy # Null]
                     ELSE firstEnv
    /\ UNCHANGED <<variant, NODE_ENV, productionDB, pending, writer, lastUser>>

Admin == \E req \in ReqsTo(variant, "admin") : Send(admin(req, Headers(req)))

Crash == \E req \in ReqsTo(variant, "crash") : Send(crash(req, Headers(req), NODE_ENV))

\* express.static, and the rest of the stack when it calls next(): no later
\* layer matches a path under /files, so the error handler answers.
Static ==
  \E req \in ReqsTo(variant, "express_static"), fs \in FileSystems :
    LET out == express_static(req, Headers(req), fs)
        rest == walk(Layers(variant), Dispatch[variant][req].idx + 1, req, Headers(req))
    IN IF out.next
         THEN /\ rest.name = "finalhandler"
              /\ Send(Seen(finalhandler(req, rest.headers, NoError, NODE_ENV), fs))
         ELSE Send(Seen(out.res, fs))

Hello == \E req \in ReqsTo(variant, "hello") : Send(hello(req, Headers(req)))

Home ==
  \E req \in ReqsTo(variant, "home") :
    /\ resp' = home(req, Headers(req), productionDB)
    /\ productionDB' = home_db(productionDB)
    /\ UNCHANGED <<variant, NODE_ENV, pending, writer, lastUser, firstEnv>>

\* No layer answered.
NotFound ==
  \E req \in ReqsTo(variant, "finalhandler") :
    Send(finalhandler(req, Headers(req), NoError, NODE_ENV))

\* POST /api/update-config arrives: express.json() starts reading the body.
UpdateReceive ==
  \E req \in ReqsTo(variant, "update_config") :
    /\ Len(pending) < MaxInFlight
    /\ pending' = Append(pending, [req |-> req, headers |-> Headers(req)])
    /\ UNCHANGED <<variant, NODE_ENV, productionDB, resp, writer, lastUser, firstEnv>>

\* The body of a waiting request has arrived: express.json() parses it and the
\* handler runs to completion.
Remove(q, i) == SubSeq(q, 1, i - 1) \o SubSeq(q, i + 1, Len(q))

UpdateBody ==
  \E i \in 1..Len(pending), body \in Bodies, now \in 0..MaxClock :
    \E parsed \in express_json(body) :
      LET req == [pending[i].req EXCEPT !.body = body]
          out == post_update_config(req, pending[i].headers, productionDB, parsed, now, NODE_ENV)
      IN /\ productionDB' = out.db
         /\ resp' = out.res
         /\ writer' = [f \in Fields |->
                         IF out.wrote = {} THEN writer[f]
                         ELSE IF f \in out.wrote THEN "latest"
                         ELSE IF writer[f] = "none" THEN "none" ELSE "earlier"]
         /\ lastUser' = IF out.res.status = 200 THEN body ELSE lastUser
         /\ pending' = Remove(pending, i)
         /\ UNCHANGED <<variant, NODE_ENV, firstEnv>>

Next ==
  \/ Preflight
  \/ Options
  \/ SwaggerUi
  \/ SwaggerJson
  \/ GraphQL
  \/ ActuatorEnv
  \/ Admin
  \/ Crash
  \/ Static
  \/ Hello
  \/ Home
  \/ NotFound
  \/ UpdateReceive
  \/ UpdateBody

Spec == Init /\ [][Next]_vars

(***************************************************************************)
(* Properties.                                                             *)
(***************************************************************************)
UpdatePath == <<"api", "update-config">>
IsUpdate(r) == r.req.method = "POST" /\ r.req.path = UpdatePath
IsGet(r, p) == r.req.method = "GET" /\ r.req.path = p
Updated(r) == IsUpdate(r) /\ r.status = 200
Anonymous == Str("anonymous")

\* C1: in every reachable state the two fields of the record are both unset
\* (null) or both set.
C1_BothOrNeither ==
  (productionDB.lastModifiedBy = Null) <=> (productionDB.lastModifiedAt = Null)

\* An update has been answered and both fields are set.
C1_Witness ==
  /\ Updated(resp)
  /\ productionDB.lastModifiedBy # Null
  /\ productionDB.lastModifiedAt # Null

C3_OnlyMutator ==
  [][(~IsUpdate(resp') \/ Len(pending') >= Len(pending))
       => productionDB' = productionDB]_vars

\* The record is set and GET / has been answered since.
C3_Witness ==
  /\ IsGet(resp, <<>>)
  /\ resp.status = 200
  /\ productionDB.lastModifiedBy = Str("alice")

C5_CrashDiagnostic ==
  (IsGet(resp, <<"crash">>) /\ variant = "full") =>
    /\ resp.status \in 500..599
    /\ resp.body.kind = "error-page"
    /\ resp.body.stack

\* C6 as stated: every response of every program carries the wildcard
\* Access-Control-Allow-Origin.
C6_WildcardEverywhere ==
  resp # NoResponse => resp.headers.acao = "*"

\* C7: every answer of GET /actuator/env equals the first one, and carries the
\* two literal credentials.
C7_EnvStable ==
  (IsGet(resp, <<"actuator", "env">>) /\ firstEnv # NoEnv) =>
    /\ resp.status = firstEnv.status
    /\ resp.body = firstEnv.body
    /\ resp.body.DB_USER = "admin"
    /\ resp.body.DB_PASSWORD = "supersecret"

\* GET /actuator/env is answered again after an update that came after its
\* first answer.
C7_Witness ==
  /\ IsGet(resp, <<"actuator", "env">>)
  /\ firstEnv # NoEnv
  /\ ~firstEnv.updated
  /\ productionDB.lastModifiedBy # Null

\* C8: GET /hello is answered 200 with {"message":"Hello World"}, in both
\* programs and in every state.
C8_Hello ==
  IsGet(resp, <<"hello">>) =>
    /\ resp.status = 200
    /\ resp.body = [kind |-> "json", message |-> "Hello World"]

\* GET /hello is answered after an update.
C8_Witness ==
  /\ IsGet(resp, <<"hello">>)
  /\ productionDB.lastModifiedBy # Null

\* C9 as stated: GET /files/ on an existing, non-empty directory lists its
\* contents, and GET /files/<nonexistent> is answered 404.
C9_Listing ==
  /\ (IsGet(resp, <<"files", "">>) /\ variant = "full" /\ resp.req.fs.dir
        /\ resp.req.fs.files # {})
       => (resp.status = 200 /\ resp.body.kind = "listing")
  /\ (IsGet(resp, <<"files", "secret.txt">>) /\ variant = "full"
        /\ "secret.txt" \notin resp.req.fs.files)
       => resp.status = 404

SameWriter == writer.lastModifiedBy = writer.lastModifiedAt
FailedUpdateKeeps ==
  (Len(pending') < Len(pending) /\ resp'.status # 200)
    => (productionDB' = productionDB /\ writer' = writer)

\* C10 as stated: both fields were last written by the same request, each
\* answer echoes the user its own request supplied, and an update that fails
\* leaves the record as it was.
C10_Original ==
  /\ [](SameWriter)
  /\ [](Updated(resp) /\ resp.req.body.kind = "object" /\ resp.req.body.user # Undefined
          => resp.body.productionDB.lastModifiedBy = resp.req.body.user)
  /\ [][FailedUpdateKeeps]_vars

\* C10 (amended): both fields were last written by the same request, each
\* answer echoes the user its own request supplied ("anonymous" when it
\* supplied none or a falsy one) with the timestamp that request wrote, and an
\* update that fails leaves the record as it was.
C10_Amended ==
  /\ [](SameWriter)
  /\ [](Updated(resp) =>
          /\ resp.body.productionDB.lastModifiedBy =
               (IF Truthy(resp.req.body.user) THEN resp.req.body.user ELSE Anonymous)
          /\ resp.body.productionDB = productionDB)
  /\ [][FailedUpdateKeeps]_vars

\* An update is answered while another one is still waiting for its body.
C10_Witness ==
  /\ Updated(resp)
  /\ Len(pending) >= 1
  /\ writer.lastModifiedBy = "latest"

====
